---------------------------- MODULE Spec2Model ----------------------------
(***************************************************************************)
(* Model of lm_eval/tasks/multiple.py (class GeneralMultiPLE):             *)
(*   - remove_last_block / postprocess_generation (lines 105-120), a pure  *)
(*     function of a string, checked under SpecPostprocess;                *)
(*   - process_results (lines 122-186), a sequential procedure over the    *)
(*     shared temporary directory, checked under Spec with NumRuns         *)
(*     concurrent invocations.                                             *)
(* A Python str is a sequence of one-character strings.                    *)
(***************************************************************************)
EXTENDS Integers, Sequences, FiniteSets, TLC

VARIABLES
    \* ---- postprocess_generation ----
    generation,     \* the argument `generation` (a string)
    idx,            \* the argument `idx`
    result,         \* postprocess_generation(generation, idx)
    reapplied,      \* postprocess_generation(result, idx)
    ppc,            \* "idle" | "input" | "once" | "twice"
    \* ---- process_results ----
    dataset,        \* self.get_dataset(): sequence of docs [name, prompt, tests]
    generations,    \* per run: the argument `generations`
    references,     \* per run: the argument `references`
    pc,             \* per run: position in process_results
    prompts_names,  \* per run: the local prompts_names
    list_files,     \* per run: the local list_files
    exc,            \* per run: the exception that ended the call, or "none"
    returned,       \* per run: <<the returned mapping>>, or <<>> if none
    files,          \* the temporary directory: path -> content
    evaluated       \* per run: the evaluate_problem calls made, in order

ppvars == <<generation, idx, result, reapplied, ppc>>
prvars == <<dataset, generations, references, pc, prompts_names, list_files,
            exc, returned, files, evaluated>>
vars == <<generation, idx, result, reapplied, ppc,
          dataset, generations, references, pc, prompts_names, list_files,
          exc, returned, files, evaluated>>

---------------------------------------------------------------------------
(* Bounds *)

\* number of pieces a generated input string is assembled from
MaxPieces == 3
\* largest value of the (unused) idx argument
MaxIdx == 1
\* concurrent process_results invocations sharing the temporary directory
NumRuns == 2
\* longest dataset
MaxDocs == 2
\* longest generations / references argument
MaxItems == 2

---------------------------------------------------------------------------
(* Strings *)

NL == "\n"

\* line 87: stop_words = ["\ndef", "\n#", "\nif", "\nclass"]
stop_words ==
    << <<NL, "d", "e", "f">>,
       <<NL, "#">>,
       <<NL, "i", "f">>,
       <<NL, "c", "l", "a", "s", "s">> >>

\* does word w occur in s starting at position p (1-based)?
MatchAt(s, p, w) ==
    /\ p + Len(w) - 1 <= Len(s)
    /\ \A k \in 1..Len(w) : s[p + k - 1] = w[k]

\* The regex "(w1|w2|...)" tried at position p: the index of the first
\* alternative that matches there (alternation is ordered), or 0.
AltAt(words, s, p) ==
    IF \E a \in 1..Len(words) : MatchAt(s, p, words[a])
    THEN CHOOSE a \in 1..Len(words) :
            /\ MatchAt(s, p, words[a])
            /\ \A b \in 1..(a - 1) : ~MatchAt(s, p, words[b])
    ELSE 0

\* re.split with one capturing group, scanning from position p with the
\* current piece starting at `last`: the text before each match, then the
\* matched delimiter, ..., and finally the remaining text.
RECURSIVE SplitFrom(_, _, _, _)
SplitFrom(words, s, last, p) ==
    IF p > Len(s)
    THEN << SubSeq(s, last, Len(s)) >>
    ELSE LET a == AltAt(words, s, p) IN
         IF a = 0
         THEN SplitFrom(words, s, last, p + 1)
         ELSE << SubSeq(s, last, p - 1), words[a] >>
              \o SplitFrom(words, s, p + Len(words[a]), p + Len(words[a]))

\* line 108: re.split("(%s)" % "|".join(stop_words), string)
re_split(words, s) == SplitFrom(words, s, 1, 1)

\* "".join(list)
RECURSIVE Join(_)
Join(l) == IF l = <<>> THEN <<>> ELSE Head(l) \o Join(Tail(l))

\* list[:-1], the slice that drops only the text after the last stop word
DropLastOne(l) == IF Len(l) <= 1 THEN <<>> ELSE SubSeq(l, 1, Len(l) - 1)

\* Python's list[:-2] (line 110)
DropLastTwo(l) == IF Len(l) <= 2 THEN <<>> ELSE SubSeq(l, 1, Len(l) - 2)

\* remove_last_block that leaves a string without a stop word as it is
remove_last_block_keep(string, words) ==
    IF Len(re_split(words, string)) = 1
    THEN string
    ELSE Join(DropLastTwo(re_split(words, string)))

\* lines 105-110
remove_last_block(string, words) ==
    Join(DropLastTwo(re_split(words, string)))

\* lines 112-120: idx is accepted and not used
postprocess_generation(g, i) == remove_last_block(g, stop_words)

---------------------------------------------------------------------------
(* Inputs of the postprocessor: strings assembled from the stop markers,  *)
(* their characters and near misses, so that several markers occur.       *)

Pieces ==
    { stop_words[a] : a \in 1..Len(stop_words) }
    \cup { <<NL>>, <<"x">>, <<"#">>, <<"d">>, <<"f">>, <<NL, "i">>,
           <<NL, "d", "e">> }

PieceLists == UNION { [1..n -> Pieces] : n \in 0..MaxPieces }

Strings == { Join(l) : l \in PieceLists }

\* the positions at which some stop marker occurs in s
Occurrences(s) ==
    { p \in 1..Len(s) : \E a \in 1..Len(stop_words) : MatchAt(s, p, stop_words[a]) }

ContainsMarker(s) == Occurrences(s) # {}

Min(S) == CHOOSE x \in S : \A y \in S : x <= y
Max(S) == CHOOSE x \in S : \A y \in S : x >= y

PrefixBefore(s, p) == SubSeq(s, 1, p - 1)

---------------------------------------------------------------------------
(* postprocess_generation as a two-step machine: apply it to an input,    *)
(* then apply it again to its own output.                                 *)

PPIdle ==
    /\ generation = <<>>
    /\ idx = 0
    /\ result = <<>>
    /\ reapplied = <<>>
    /\ ppc = "idle"

PPInit ==
    /\ generation \in Strings
    /\ idx \in 0..MaxIdx
    /\ result = <<>>
    /\ reapplied = <<>>
    /\ ppc = "input"

\* the harness calls task.postprocess_generation(generation, idx)
Postprocess ==
    /\ ppc = "input"
    /\ result' = postprocess_generation(generation, idx)
    /\ ppc' = "once"
    /\ UNCHANGED <<generation, idx, reapplied>>

\* postprocess_generation applied to its own output
Reapply ==
    /\ ppc = "once"
    /\ reapplied' = postprocess_generation(result, idx)
    /\ ppc' = "twice"
    /\ UNCHANGED <<generation, idx, result>>

---------------------------------------------------------------------------
(* process_results: data *)

Runs == 1..NumRuns

\* records of the dataset: the fields the code reads (lines 132, 99, 103)
Docs ==
    { [name |-> "p", prompt |-> "def p", tests |-> "tests p"],
      [name |-> "q", prompt |-> "def q", tests |-> "tests q"] }

SeqsUpTo(S, n) == UNION { [1..k -> S] : k \in 0..n }

\* one element of `generations`: the list of completions of a problem
CompletionLists == { <<"a">>, <<"a", "b">> }

\* one element of `references`
ReferenceStrings == { "tests" }

MinOf(a, b) == IF a <= b THEN a ELSE b

\* tempfile.gettempdir() (line 137): one directory for the whole process,
\* and for every process of the same user
temp_dir == "tmp"

\* os.path.join(temp_dir, f"{name}.json") (line 150)
ProblemPath(name) == [dir |-> temp_dir, base |-> name, ext |-> "json"]

\* a file {name}.results.json directly in temp_dir, what line 172 globs for
ResultsPath(name) == [dir |-> temp_dir, base |-> name, ext |-> "results.json"]

EmptyDir == [q \in {} |-> <<>>]

\* open(path, "wt") + json.dump (lines 152-153): create or truncate
WriteFile(fs, path, content) ==
    [q \in (DOMAIN fs) \cup {path} |-> IF q = path THEN content ELSE fs[q]]

\* a directory left behind by an earlier run whose results landed in temp_dir
StaleDir == WriteFile(EmptyDir, ResultsPath("old"), <<0, 0, 0>>)

\* lines 131-135: [(doc["prompt"], doc["name"]) for i, doc in
\* enumerate(self.get_dataset()) if i < len(generations)]: a list of TUPLES
build_prompts_names(ds, gens) ==
    [i \in 1..MinOf(Len(ds), Len(gens)) |-> <<ds[i].prompt, ds[i].name>>]

\* zip(prompts_names, generations, references) (lines 139-141) stops at the
\* shortest of the three
ZipLen(r) ==
    MinOf(Len(prompts_names[r]), MinOf(Len(generations[r]), Len(references[r])))

\* Subscripting a tuple with a str key, as lines 143, 145, 150 and 155 do
\* with prompt_name["name"] and prompt_name["prompt"]: tuple.__getitem__
\* accepts integers and slices only and raises TypeError for a str.
tuple_getitem_str(t, key) == [exc |-> "TypeError", value |-> <<>>]

\* time.time() at line 162, with `from time import time` at line 16: the
\* name `time` is the builtin function, which has no attribute `time`.
time_time == [exc |-> "AttributeError", value |-> 0]

\* lines 142-148: the problem dict, given the name and prompt looked up
problem_record(name, prompt, language, completions, tests) ==
    [name |-> name, language |-> language, prompt |-> prompt,
     completions |-> completions, tests |-> tests]

\* self.language (line 84); the model runs one task, for "py" (line 37)
language == "py"

---------------------------------------------------------------------------
(* process_results: steps.  pc[r] is "ready" before the call, "zip" in   *)
(* the loop of lines 139-156, "saved" at line 157, "raised" once an      *)
(* exception has left the function (there is no try/except in it).       *)

PRIdle ==
    /\ dataset = <<>>
    /\ generations = [r \in Runs |-> <<>>]
    /\ references = [r \in Runs |-> <<>>]
    /\ pc = [r \in Runs |-> "idle"]
    /\ prompts_names = [r \in Runs |-> <<>>]
    /\ list_files = [r \in Runs |-> <<>>]
    /\ exc = [r \in Runs |-> "none"]
    /\ returned = [r \in Runs |-> <<>>]
    /\ files = EmptyDir
    /\ evaluated = [r \in Runs |-> <<>>]

PRInit ==
    /\ dataset \in SeqsUpTo(Docs, MaxDocs)
    /\ generations \in [Runs -> SeqsUpTo(CompletionLists, MaxItems)]
    /\ references \in [Runs -> SeqsUpTo(ReferenceStrings, MaxItems)]
    /\ pc = [r \in Runs |-> "ready"]
    /\ prompts_names = [r \in Runs |-> <<>>]
    /\ list_files = [r \in Runs |-> <<>>]
    /\ exc = [r \in Runs |-> "none"]
    /\ returned = [r \in Runs |-> <<>>]
    /\ files \in {EmptyDir, StaleDir}
    /\ evaluated = [r \in Runs |-> <<>>]

\* lines 131-138: prompts_names, temp_dir, list_files = []
Enter(r) ==
    /\ pc[r] = "ready"
    /\ prompts_names' =
         [prompts_names EXCEPT ![r] = build_prompts_names(dataset, generations[r])]
    /\ list_files' = [list_files EXCEPT ![r] = <<>>]
    /\ pc' = [pc EXCEPT ![r] = "zip"]
    /\ UNCHANGED <<dataset, generations, references, exc, returned, files, evaluated>>

\* lines 139-156, one iteration of the loop over the zip.  The dict display
\* of lines 142-148 evaluates prompt_name["name"] first (line 143); an
\* exception there leaves the function before line 151 appends the path and
\* before lines 152-153 write the file.
LoopBody(r) ==
    /\ pc[r] = "zip"
    /\ Len(list_files[r]) < ZipLen(r)
    /\ LET k == Len(list_files[r]) + 1
           prompt_name == prompts_names[r][k]
           name == tuple_getitem_str(prompt_name, "name")
           prompt == tuple_getitem_str(prompt_name, "prompt")
       IN  IF name.exc # "none"
           THEN /\ pc' = [pc EXCEPT ![r] = "raised"]
                /\ exc' = [exc EXCEPT ![r] = name.exc]
                /\ UNCHANGED <<list_files, files>>
           ELSE /\ list_files' =
                     [list_files EXCEPT ![r] = Append(@, ProblemPath(name.value))]
                /\ files' = WriteFile(files, ProblemPath(name.value),
                                problem_record(name.value, prompt.value, language,
                                               generations[r][k], references[r][k]))
                /\ UNCHANGED <<pc, exc>>
    /\ UNCHANGED <<dataset, generations, references, prompts_names, returned, evaluated>>

\* the zip is exhausted: line 157
LoopExit(r) ==
    /\ pc[r] = "zip"
    /\ Len(list_files[r]) >= ZipLen(r)
    /\ pc' = [pc EXCEPT ![r] = "saved"]
    /\ UNCHANGED <<dataset, generations, references, prompts_names, list_files,
                   exc, returned, files, evaluated>>

\* lines 157-162: output_dir, max_workers, then start_t = time.time().  The
\* exception leaves the function, so the loop over list_files (lines 163-165),
\* the glob and the mean (lines 171-174) and the return (line 186) are never
\* executed: `evaluated` and `returned` keep their initial values.
StartTimer(r) ==
    /\ pc[r] = "saved"
    /\ time_time.exc # "none"
    /\ pc' = [pc EXCEPT ![r] = "raised"]
    /\ exc' = [exc EXCEPT ![r] = time_time.exc]
    /\ UNCHANGED <<dataset, generations, references, prompts_names, list_files,
                   returned, files, evaluated>>

---------------------------------------------------------------------------
(* Specifications *)

Init == PRInit /\ PPIdle

Next ==
    \/ \E r \in Runs : Enter(r) /\ UNCHANGED ppvars
    \/ \E r \in Runs : LoopBody(r) /\ UNCHANGED ppvars
    \/ \E r \in Runs : LoopExit(r) /\ UNCHANGED ppvars
    \/ \E r \in Runs : StartTimer(r) /\ UNCHANGED ppvars

Spec == Init /\ [][Next]_vars

InitPostprocess == PPInit /\ PRIdle

NextPostprocess ==
    \/ Postprocess /\ UNCHANGED prvars
    \/ Reapply /\ UNCHANGED prvars

SpecPostprocess == InitPostprocess /\ [][NextPostprocess]_vars

---------------------------------------------------------------------------
(* Properties of remove_last_block / postprocess_generation               *)
(* (checked under SpecPostprocess)                                        *)

Applied == ppc \in {"once", "twice"}

\* C1 as stated: for every string with at least one stop marker,
\* remove_last_block returns the prefix that ends just before the FIRST
\* (leftmost) marker occurrence, also when there are two or more occurrences.
C1_PrefixBeforeFirstMarker ==
    (Applied /\ ContainsMarker(generation)) =>
        /\ result = PrefixBefore(generation, Min(Occurrences(generation)))
        /\ remove_last_block(generation, stop_words) = result

\* C1 amended: for every string with at least one stop marker,
\* remove_last_block returns the prefix that ends just before the LAST
\* (rightmost) marker occurrence: only the last block is removed.
C1_PrefixBeforeLastMarker ==
    (Applied /\ ContainsMarker(generation)) =>
        /\ result = PrefixBefore(generation, Max(Occurrences(generation)))
        /\ remove_last_block(generation, stop_words) = result

\* a string with two marker occurrences and text before, between and after
\* them has been postprocessed
C1_Witness ==
    /\ ppc = "once"
    /\ Cardinality(Occurrences(generation)) >= 2
    /\ Min(Occurrences(generation)) > 1
    /\ Len(result) > Min(Occurrences(generation))
    /\ Len(generation) > Len(result) + 2

\* C2 as stated: if the output r of postprocess_generation contains no stop
\* marker, then postprocess_generation applied to r returns r.
C2_IdempotentOnMarkerFreeOutput ==
    (ppc = "twice" /\ ~ContainsMarker(result)) => reapplied = result

\* C3: for every string without a stop marker (the empty string included)
\* remove_last_block, and hence postprocess_generation with any idx, returns
\* the empty string.
C3_NoMarkerGivesEmpty ==
    (Applied /\ ~ContainsMarker(generation)) =>
        /\ result = <<>>
        /\ remove_last_block(generation, stop_words) = <<>>
        /\ \A i \in 0..MaxIdx : postprocess_generation(generation, i) = <<>>

\* a non-empty string without a stop marker has been postprocessed with a
\* non-zero idx
C3_Witness ==
    /\ ppc = "once"
    /\ ~ContainsMarker(generation)
    /\ Len(generation) >= 2
    /\ idx = MaxIdx
    /\ result = <<>>

---------------------------------------------------------------------------
(* Properties of process_results (checked under Spec)                     *)

\* the call of run r has ended, by a return or by an exception
Done(r) == pc[r] \in {"raised", "returned"}

\* the number of aligned (dataset record, generation list, reference) triples
Aligned(r) ==
    MinOf(Len(dataset), MinOf(Len(generations[r]), Len(references[r])))

\* the Problem Record of the i-th aligned triple of run r
RecordOf(r, i) ==
    problem_record(dataset[i].name, dataset[i].prompt, language,
                   generations[r][i], references[r][i])

\* the paths of the first n dataset records, in dataset order
PathsOfFirst(n) == [i \in 1..n |-> ProblemPath(dataset[i].name)]

\* the problem files handed to evaluate_problem by run r, in call order
EvaluatedFiles(r) == [i \in 1..Len(evaluated[r]) |-> evaluated[r][i].problem_file]

\* The per-problem pass@k vector (in percent) that for_file reports for the
\* results evaluate_problem writes for a Problem Record.  Both functions are
\* external to multiple.py; this stands for their composition.
pass_at_k(record) ==
    IF Len(record.completions) = 1 THEN <<0, 0, 0>> ELSE <<50, 100, 100>>

MetricKeys == <<"pass@1", "pass@10", "pass@100">>

RECURSIVE SumScores(_, _, _)
SumScores(r, n, j) ==
    IF n = 0 THEN 0 ELSE pass_at_k(RecordOf(r, n))[j] + SumScores(r, n - 1, j)

\* C4: a call over N >= 1 aligned problems returns a mapping with exactly the
\* keys pass@1, pass@10, pass@100, each value the unweighted mean over the N
\* problems of the per-problem pass@k (N * value = sum of the N values).
C4_ReturnsMeanPassAtK ==
    \A r \in Runs :
        (Done(r) /\ Aligned(r) >= 1) =>
            /\ pc[r] = "returned"
            /\ Len(returned[r]) = 1
            /\ DOMAIN returned[r][1] = { MetricKeys[j] : j \in 1..3 }
            /\ \A j \in 1..3 :
                 Aligned(r) * returned[r][1][MetricKeys[j]]
                     = SumScores(r, Aligned(r), j)

\* C5: with len(references) < len(generations) <= len(dataset), exactly the
\* first len(references) items have been written as problem files and passed
\* to the evaluator, in dataset order, when the call ends.
C5_FirstReferencesItemsEvaluated ==
    \A r \in Runs :
        (/\ Done(r)
         /\ Len(references[r]) < Len(generations[r])
         /\ Len(generations[r]) <= Len(dataset)) =>
            /\ list_files[r] = PathsOfFirst(Len(references[r]))
            /\ \A i \in 1..Len(references[r]) :
                 ProblemPath(dataset[i].name) \in DOMAIN files
            /\ EvaluatedFiles(r) = PathsOfFirst(Len(references[r]))

\* C6: when the call ends, every aligned triple i has its path
\* {tempdir}/{name_i}.json queued once, and the file there holds the Problem
\* Record of the last triple written under that name (of this run, or of a
\* concurrent run that uses the same name).
C6_ProblemFilesWritten ==
    \A r \in Runs :
        Done(r) =>
            /\ list_files[r] = PathsOfFirst(Aligned(r))
            /\ \A i \in 1..Aligned(r) :
                 LET path == ProblemPath(dataset[i].name)
                     last == Max({ j \in 1..Aligned(r) :
                                     dataset[j].name = dataset[i].name })
                 IN  /\ path \in DOMAIN files
                     /\ \/ files[path] = RecordOf(r, last)
                        \/ \E r2 \in Runs \ {r} : \E j \in 1..Aligned(r2) :
                             /\ dataset[j].name = dataset[i].name
                             /\ files[path] = RecordOf(r2, j)

---------------------------------------------------------------------------
(* What every run of process_results does, as the steps above have it:    *)
(* it never writes a file, never calls the evaluator and never returns.   *)

NoRunGetsPastTheLoop ==
    /\ files \in {EmptyDir, StaleDir}
    /\ \A r \in Runs :
         /\ list_files[r] = <<>>
         /\ evaluated[r] = <<>>
         /\ returned[r] = <<>>
         /\ pc[r] # "returned"
         /\ (pc[r] = "raised" /\ Aligned(r) >= 1) => exc[r] = "TypeError"
         /\ (pc[r] = "raised" /\ Aligned(r) = 0) => exc[r] = "AttributeError"

====
